---- MODULE Spec2Model ----
(***************************************************************************)
(* rgltf: loading, drawing and unloading a glTF model.                     *)
(*                                                                         *)
(* The model follows rgltf.c: LoadGLTFModel (with its file importer        *)
(* LoadGLTFModelFile), the eight draw entry points and UnloadGLTFModel.    *)
(* C arrays are sequences; array positions keep the 0-based values of the  *)
(* C code and are shifted by one only where a sequence is indexed.         *)
(* Pointers into the parsed container are 1-based positions, 0 is NULL.    *)
(*                                                                         *)
(* The image resolver and the loading of one primitive's vertex and index  *)
(* data are also run on their own, on an argument arg with the result in   *)
(* ret (UnitSpec).                                                         *)
(***************************************************************************)
EXTENDS Integers, Sequences, FiniteSets, TLC

VARIABLES data, pc, model, heap, wireMode, drawLog, lastCall, oob, warnings, arg, ret

vars == <<data, pc, model, heap, wireMode, drawLog, lastCall, oob, warnings, arg, ret>>

(***************************************************************************)
(* Bounds of the explored inputs.                                          *)
(***************************************************************************)
\* materials + meshes + primitives of a container of the mesh family
MaxSize == 4
\* nodes + child entries + scene roots of a container of the graph family
MaxGraph == 4

(***************************************************************************)
(* Double-precision arithmetic of the tint expression.                     *)
(* A natural number is a little-endian sequence of limbs; a double is      *)
(* [m |-> mantissa, e |-> exponent], value m * 2^e, m of at most MantBits  *)
(* bits, rounded to nearest, ties to even.                                 *)
(***************************************************************************)
LimbBits == 10
LimbBase == 2^LimbBits
MantBits == 53
DivScale == 7

RECURSIVE Pow2(_)
Pow2(n) == IF n = 0 THEN 1 ELSE 2 * Pow2(n - 1)

RECURSIVE BitLen(_)
BitLen(v) == IF v = 0 THEN 0 ELSE 1 + BitLen(v \div 2)

RECURSIVE Strip(_)
Strip(n) == IF n = <<>> THEN <<>>
            ELSE IF n[Len(n)] = 0 THEN Strip(SubSeq(n, 1, Len(n) - 1)) ELSE n

BitLength(n) == IF n = <<>> THEN 0 ELSE (Len(n) - 1) * LimbBits + BitLen(n[Len(n)])

RECURSIVE MulSmall(_, _, _)
MulSmall(n, m, carry) ==
    IF n = <<>>
    THEN IF carry = 0 THEN <<>>
         ELSE <<carry % LimbBase>> \o MulSmall(<<>>, m, carry \div LimbBase)
    ELSE LET v == Head(n) * m + carry
         IN <<v % LimbBase>> \o MulSmall(Tail(n), m, v \div LimbBase)

RECURSIVE AddBig(_, _, _)
AddBig(a, b, carry) ==
    IF a = <<>> /\ b = <<>>
    THEN IF carry = 0 THEN <<>> ELSE <<carry>>
    ELSE LET x == IF a = <<>> THEN 0 ELSE Head(a)
             y == IF b = <<>> THEN 0 ELSE Head(b)
             v == x + y + carry
         IN <<v % LimbBase>> \o AddBig(IF a = <<>> THEN a ELSE Tail(a),
                                       IF b = <<>> THEN b ELSE Tail(b),
                                       v \div LimbBase)

RECURSIVE MulBig(_, _)
MulBig(a, b) ==
    IF b = <<>> THEN <<>>
    ELSE AddBig(MulSmall(a, Head(b), 0), <<0>> \o MulBig(a, Tail(b)), 0)

RECURSIVE DivSmall(_, _)
DivSmall(n, d) ==
    IF n = <<>> THEN [q |-> <<>>, r |-> 0]
    ELSE LET hi == DivSmall(Tail(n), d)
             v == hi.r * LimbBase + Head(n)
         IN [q |-> <<v \div d>> \o hi.q, r |-> v % d]

ShiftRight(n, s) ==
    LET k == IF s \div LimbBits > Len(n) THEN Len(n) ELSE s \div LimbBits
        low == SubSeq(n, 1, k)
        high == SubSeq(n, k + 1, Len(n))
        d == DivSmall(high, Pow2(s % LimbBits))
    IN [q |-> Strip(d.q), sticky |-> d.r # 0 \/ \E i \in 1..Len(low) : low[i] # 0]

IsOdd(n) == n # <<>> /\ n[1] % 2 = 1

RoundToDouble(n, sticky, e) ==
    LET N == Strip(n)
        L == BitLength(N)
    IN IF L <= MantBits THEN [m |-> N, e |-> e]
       ELSE LET s == L - MantBits
                h == ShiftRight(N, s - 1)
                t == ShiftRight(h.q, 1)
                up == IsOdd(h.q) /\ (sticky \/ h.sticky \/ IsOdd(t.q))
                m1 == IF up THEN Strip(AddBig(t.q, <<1>>, 0)) ELSE t.q
            IN IF BitLength(m1) > MantBits
               THEN [m |-> ShiftRight(m1, 1).q, e |-> e + s + 1]
               ELSE [m |-> m1, e |-> e + s]

RECURSIVE ToInt(_)
ToInt(n) == IF n = <<>> THEN 0 ELSE Head(n) + LimbBase * ToInt(Tail(n))

\* (double)c / d for integers 0 < c < LimbBase, 0 < d < LimbBase
DoubleDiv(c, d) ==
    LET num == [i \in 1..(DivScale + 1) |-> IF i = DivScale + 1 THEN c ELSE 0]
        qr == DivSmall(num, d)
    IN RoundToDouble(qr.q, qr.r # 0, 0 - DivScale * LimbBits)

DoubleMul(a, b) == RoundToDouble(MulBig(a.m, b.m), FALSE, a.e + b.e)

DoubleMulInt(a, k) == RoundToDouble(MulSmall(a.m, k, 0), FALSE, a.e)

\* (unsigned char)x for a double 0 <= x < 256
DoubleTrunc(a) ==
    IF a.e >= 0 THEN ToInt(a.m) * Pow2(a.e) ELSE ToInt(ShiftRight(a.m, 0 - a.e).q)

(***************************************************************************)
(* Colours.  A colour is <<r, g, b, a>>, every channel in 0..255.          *)
(***************************************************************************)
WHITE == <<255, 255, 255, 255>>
BLANK == <<0, 0, 0, 0>>

\* (unsigned char)((((float)c/255.0)*((float)t/255.0))*255.0f)
TintChannel(c, t) ==
    IF c = 0 \/ t = 0 THEN 0
    ELSE DoubleTrunc(DoubleMulInt(DoubleMul(DoubleDiv(c, 255), DoubleDiv(t, 255)), 255))

\* the tints the draw calls are made with
Tints == {<<128, 128, 128, 255>>, <<85, 170, 255, 255>>}

TintChannels == {t[k] : t \in Tints, k \in 1..4}
ColorChannels == {0, 159, 255}

\* the products of the channel values that occur, as triples <<c, t, product>>
TintTable == {<<c, t, TintChannel(c, t)>> : c \in ColorChannels, t \in TintChannels}

\* the product the tint expression yields for channel values c and t
Tinted(c, t) == (CHOOSE p \in TintTable : p[1] = c /\ p[2] = t)[3]

ColorTint(color, tint) ==
    [k \in 1..4 |-> Tinted(color[k], tint[k])]

\* (unsigned char)(factor*255) for a factor given in eighths (exact in float)
FactorToByte(f8) == (f8 * 255) \div 8

(***************************************************************************)
(* The parsed container (cgltf_data) or the failure to obtain one.         *)
(***************************************************************************)
NULL == 0

\* a pointer to a structure or a string: Absent is the NULL pointer, Some(x) points
\* to x, and p[1] is what a pointer p other than NULL points to
Absent == <<>>
Some(x) == <<x>>

\* strings are sequences of characters
DataScheme == <<"d", "a", "t", "a", ":">>

\* a buffer view over a buffer whose bytes are data (Absent while not loaded)
BufferView(bytes, offset, stride, size) ==
    [buffer |-> [data |-> bytes], offset |-> offset, stride |-> stride, size |-> size]

\* a cgltf_image; file is what the file system holds under the image's path
\* (Absent when there is no such file)
CgltfImage(uri, buffer_view, mime_type, file) ==
    [uri |-> uri, buffer_view |-> buffer_view, mime_type |-> mime_type, file |-> file]

\* the first bytes of a PNG stream and of a JPEG stream
PngSignature == <<137, 80, 78, 71>>
JpegSignature == <<255, 216, 255>>

\* an image given as a base64 data URI of a PNG
ImageOk ==
    CgltfImage(Some(DataScheme \o <<";", "b", ",", "i", "V", "B", "O", "R", "w", "0", "K">>),
               Absent, Absent, Absent)

\* an image given as a data URI without a comma
ImageBad == CgltfImage(Some(DataScheme \o <<"i", "V", "B", "O">>), Absent, Absent, Absent)

MaterialRed ==
    [has_pbr_metallic_roughness |-> TRUE, base_color_factor |-> <<8, 0, 0, 8>>,
     base_color_texture |-> Absent, metallic_roughness_texture |-> Absent,
     roughness_factor |-> 4, metallic_factor |-> 8, normal_texture |-> Absent,
     occlusion_texture |-> Absent, emissive_texture |-> Absent,
     emissive_factor |-> <<0, 0, 0>>]

MaterialTextured ==
    [has_pbr_metallic_roughness |-> TRUE, base_color_factor |-> <<5, 5, 5, 8>>,
     base_color_texture |-> Some(ImageOk),
     metallic_roughness_texture |-> Some(ImageBad),
     roughness_factor |-> 4, metallic_factor |-> 8, normal_texture |-> Some(ImageOk),
     occlusion_texture |-> Absent, emissive_texture |-> Some(ImageOk),
     emissive_factor |-> <<8, 4, 0>>]

MaterialPlain ==
    [has_pbr_metallic_roughness |-> FALSE, base_color_factor |-> <<8, 8, 8, 8>>,
     base_color_texture |-> Some(ImageOk), metallic_roughness_texture |-> Absent,
     roughness_factor |-> 8, metallic_factor |-> 8, normal_texture |-> Absent,
     occlusion_texture |-> Absent, emissive_texture |-> Absent,
     emissive_factor |-> <<0, 0, 0>>]

MaterialMenu == <<MaterialTextured, MaterialRed, MaterialPlain>>

SourceMaterials(mc) == [j \in 1..mc |-> MaterialMenu[((j - 1) % Len(MaterialMenu)) + 1]]

\* an accessor of count elements, offset bytes into its buffer view, stride bytes
\* from one element to the next
Accessor(component_type, type, count, offset, stride, buffer_view) ==
    [component_type |-> component_type, type |-> type, count |-> count,
     offset |-> offset, stride |-> stride, buffer_view |-> buffer_view]

\* the POSITION accessor of the primitives of the model files: one triangle of the
\* nine floats (0,0,0), (1,0,0), (0,1,0)
TrianglePosition ==
    Accessor("r_32f", "vec3", 3, 0, 12,
             BufferView(Some(<<0, 0, 0, 0, 0, 0, 0, 0, 0, 0, 0, 0,
                               0, 0, 128, 63, 0, 0, 0, 0, 0, 0, 0, 0,
                               0, 0, 0, 0, 0, 0, 128, 63, 0, 0, 0, 0>>), 0, 0, 36))

\* an unindexed primitive
Primitive(type, material) ==
    [type |-> type, material |-> material, position |-> Some(TrianglePosition),
     indices |-> Absent]

PrimKinds(mc) == {Primitive(ty, mat) : ty \in {"triangles", "lines"}, mat \in 0..mc}

SourceNode(mesh, children) ==
    [mesh |-> mesh, children |-> children,
     has_translation |-> TRUE, has_rotation |-> TRUE, has_scale |-> TRUE]

Container(materials, meshes, nodes, scenes, scene) ==
    [status |-> "ok", materials |-> materials, meshes |-> meshes, nodes |-> nodes,
     scenes |-> scenes, scene |-> scene]

Unreadable == [Container(<<>>, <<>>, <<>>, <<>>, NULL) EXCEPT !.status = "unreadable"]
Unparseable == [Container(<<>>, <<>>, <<>>, <<>>, NULL) EXCEPT !.status = "unparseable"]

RECURSIVE SumTo(_, _)
SumTo(c, i) == IF i = 0 THEN 0 ELSE c[i] + SumTo(c, i - 1)

Compositions(total, parts) ==
    {c \in [1..parts -> 0..total] : SumTo(c, parts) = total}

Split(flat, c) ==
    [i \in 1..Len(c) |-> SubSeq(flat, SumTo(c, i - 1) + 1, SumTo(c, i))]

\* one leaf node per source mesh
LeafNodes(m) == [i \in 1..m |-> SourceNode(i, <<>>)]

\* mesh family: every material count, mesh count and primitive list within MaxSize;
\* no scenes, so that whole-model draws take the flat mesh list
MeshFamily ==
    UNION {UNION {UNION {
        {Container(SourceMaterials(mc), Split(flat, c), LeafNodes(m), <<>>, NULL) :
            flat \in [1..p -> PrimKinds(mc)], c \in Compositions(p, m)}
        : p \in 0..(MaxSize - mc - m)} : m \in 0..(MaxSize - mc)} : mc \in 0..MaxSize}

GraphMaterials == SourceMaterials(2)

GraphMeshes ==
    << <<Primitive("triangles", 1)>>,
       <<Primitive("lines", 1), Primitive("triangles", 2), Primitive("triangles", NULL)>> >>

\* node i of a graph container references mesh (i + 1 mod 3): mesh 2, none, mesh 1, ...
GraphNodeMesh(i) == (i + 1) % (Len(GraphMeshes) + 1)

\* the scene lists over a root list: no scene, or one scene holding the roots, with
\* the container's default scene absent (NULL) or set
SceneChoices(roots) ==
    (IF roots = <<>> THEN {[scenes |-> <<>>, scene |-> NULL]} ELSE {})
        \cup {[scenes |-> <<roots>>, scene |-> sc] : sc \in {NULL, 1}}

\* graph family: every node count, child lists and root list within MaxGraph, cycles
\* and shared children included
GraphFamily ==
    UNION {UNION {UNION {
        {Container(GraphMaterials, GraphMeshes,
                   [i \in 1..n |-> SourceNode(GraphNodeMesh(i), Split(edges, ce)[i])],
                   sc.scenes, sc.scene) :
            edges \in [1..e -> 1..n], ce \in Compositions(e, n),
            sc \in UNION {SceneChoices(roots) : roots \in [1..r -> 1..n]}}
        : r \in 0..(MaxGraph - n - e)} : e \in 0..(MaxGraph - n)} : n \in 0..MaxGraph}

\* a graph whose leaf, node 1, is a root, a child of node 2 and a child of node 3
SharedLeafGraph ==
    Container(GraphMaterials, GraphMeshes,
              <<SourceNode(GraphNodeMesh(1), <<>>), SourceNode(GraphNodeMesh(2), <<1>>),
                SourceNode(GraphNodeMesh(3), <<1>>)>>,
              << <<1, 2, 3>> >>, 1)

Files == {Unreadable, Unparseable, SharedLeafGraph} \cup MeshFamily \cup GraphFamily

(***************************************************************************)
(* Memory.  A block is <<kind, index>>; heap maps every block allocated so *)
(* far to the number of times it has been released.                        *)
(***************************************************************************)
NullPtr == <<"NULL", 0>>

\* RL_CALLOC(count, size): a zero-sized request yields NULL or a block of its own,
\* as the C library chooses
Calloc(kind, index, count, nullOnZero) ==
    IF count = 0 /\ nullOnZero THEN NullPtr ELSE <<kind, index>>

\* RL_FREE(ptr): free(NULL) does nothing
Free(h, ptr) == IF ptr = NullPtr THEN h ELSE [h EXCEPT ![ptr] = @ + 1]

RECURSIVE FreeAll(_, _)
FreeAll(h, ptrs) == IF ptrs = <<>> THEN h ELSE FreeAll(Free(h, Head(ptrs)), Tail(ptrs))

\* what a read outside an array, or a difference with a null pointer, can yield
GarbageInts == {-1, 0, MaxSize + MaxGraph + 1}

\* the values to consider where such a read happens; a single one where none does
GarbageIf(happens) == IF happens THEN GarbageInts ELSE {0}

(***************************************************************************)
(* Matrices are kept symbolic: a product is the sequence of its factors.   *)
(***************************************************************************)
MatrixIdentity == <<>>
MatrixZero == << <<"zero", 0>> >>
\* a product with its operands exchanged
MatrixMultiplyMutant(left, right) == right \o left

MatrixMultiply(left, right) == left \o right

(***************************************************************************)
(* The model (GLTFModel), its meshes, materials, nodes and scenes.         *)
(***************************************************************************)
ZeroModel ==
    [transform |-> MatrixZero,
     meshCount |-> 0, materialCount |-> 0,
     meshes |-> <<>>, meshesPtr |-> NullPtr,
     materials |-> <<>>, materialsPtr |-> NullPtr,
     meshMaterial |-> <<>>, meshMaterialPtr |-> NullPtr,
     nodeCount |-> 0, nodes |-> <<>>, nodesPtr |-> NullPtr,
     sceneCount |-> 0, scenes |-> <<>>, scenesPtr |-> NullPtr,
     scene |-> 0]

ZeroMesh ==
    [vertexCount |-> 0, triangleCount |-> 0, vertices |-> NullPtr, indices |-> NullPtr,
     vboId |-> NullPtr, uploads |-> 0]

\* LoadMaterialDefault(): a fresh maps array, white diffuse colour, no texture of its own
LoadMaterialDefault(j) ==
    [maps |-> <<"maps", j>>, color |-> WHITE,
     albedoTex |-> NullPtr, roughnessTex |-> NullPtr, normalTex |-> NullPtr,
     occlusionTex |-> NullPtr, emissionTex |-> NullPtr,
     roughness |-> 0, metalness |-> 0, emission |-> BLANK]

\* the base64 alphabet of cgltf, in the order of the digit values 0..63
Base64Alphabet ==
    <<"A", "B", "C", "D", "E", "F", "G", "H", "I", "J", "K", "L", "M", "N", "O", "P",
      "Q", "R", "S", "T", "U", "V", "W", "X", "Y", "Z", "a", "b", "c", "d", "e", "f",
      "g", "h", "i", "j", "k", "l", "m", "n", "o", "p", "q", "r", "s", "t", "u", "v",
      "w", "x", "y", "z", "0", "1", "2", "3", "4", "5", "6", "7", "8", "9", "+", "/">>

IsBase64(ch) == \E i \in 1..64 : Base64Alphabet[i] = ch

Base64Digit(ch) == (CHOOSE i \in 1..64 : Base64Alphabet[i] = ch) - 1

\* the 24 bits that the four characters of group g (from 0) of src stand for
Base64Group(src, g) ==
    Base64Digit(src[4*g + 1]) * 262144 + Base64Digit(src[4*g + 2]) * 4096
        + Base64Digit(src[4*g + 3]) * 64 + Base64Digit(src[4*g + 4])

\* cgltf_load_buffer_base64 for a size that is a multiple of 3: it reads four
\* characters for every three bytes and fails on a character outside the alphabet
cgltf_load_buffer_base64(size, src) ==
    IF \A i \in 1..(4 * (size \div 3)) : IsBase64(src[i])
    THEN [result |-> "success",
          data |-> [i \in 1..size |->
                      (Base64Group(src, (i - 1) \div 3) \div Pow2(8 * (2 - ((i - 1) % 3)))) % 256]]
    ELSE [result |-> "io_error", data |-> <<>>]

\* whether bytes begins with the signature sig
StartsWith(bytes, sig) == Len(bytes) >= Len(sig) /\ SubSeq(bytes, 1, Len(sig)) = sig

\* whether LoadImageFromMemory produces pixels: the bytes are a stream of the
\* format that fileType names
LoadImageFromMemory(fileType, bytes) ==
    \/ fileType = ".png" /\ StartsWith(bytes, PngSignature)
    \/ fileType = ".jpg" /\ StartsWith(bytes, JpegSignature)

\* whether LoadImage produces pixels from the file found under the path texPath/uri;
\* with an empty uri the path is that of the directory
LoadImage(uri, file) ==
    /\ uri # <<>>
    /\ file # Absent
    /\ StartsWith(file[1], PngSignature) \/ StartsWith(file[1], JpegSignature)

\* the position of the first comma of uri, or one past its end
RECURSIVE FindComma(_, _)
FindComma(uri, i) == IF i > Len(uri) \/ uri[i] = "," THEN i ELSE FindComma(uri, i + 1)

\* what a run of the image resolver yields: whether the image has pixel data,
\* the route taken, the bytes and file type handed to the decoder, the
\* warnings logged and the NULL pointers dereferenced
ImageResult(pixels, route, fileType, bytes, warning, deref) ==
    [data |-> pixels, route |-> route, fileType |-> fileType, bytes |-> bytes,
     warning |-> warning, deref |-> deref]

EmptyImage(route, warning) == ImageResult(FALSE, route, "", <<>>, warning, "")

\* the data URI branch, the comma found at position i
LoadImageBase64(uri, i) ==
    IF i > Len(uri) THEN EmptyImage("base64", "IMAGE: glTF data URI is not a valid image")
    ELSE IF cgltf_load_buffer_base64(3 * ((Len(uri) - i) \div 4),
                                     SubSeq(uri, i + 1, Len(uri))).result = "success"
         THEN ImageResult(
                  LoadImageFromMemory(".png",
                      cgltf_load_buffer_base64(3 * ((Len(uri) - i) \div 4),
                                               SubSeq(uri, i + 1, Len(uri))).data),
                  "base64", ".png",
                  cgltf_load_buffer_base64(3 * ((Len(uri) - i) \div 4),
                                           SubSeq(uri, i + 1, Len(uri))).data,
                  "", "")
         ELSE EmptyImage("base64", "")

\* the bytes copied from the buffer view: size bytes from offset, stride apart
CopyView(view, stride) ==
    [i \in 1..view.size |-> view.buffer.data[1][view.offset + (i - 1) * stride + 1]]

\* the embedded branch, the bytes already copied
LoadImageEmbedded(mime_type, bytes) ==
    IF mime_type = Absent THEN ImageResult(FALSE, "view", "", bytes, "", "mime_type")
    ELSE IF mime_type[1] \in {"image\\/png", "image/png"}
         THEN ImageResult(LoadImageFromMemory(".png", bytes), "view", ".png", bytes, "", "")
    ELSE IF mime_type[1] \in {"image\\/jpeg", "image/jpeg"}
         THEN ImageResult(LoadImageFromMemory(".jpg", bytes), "view", ".jpg", bytes, "", "")
    ELSE ImageResult(FALSE, "view", "", bytes,
                     "MODEL: glTF image data MIME type not recognized", "")

\* the image resolver
LoadImageFromCgltfImage(image) ==
    IF image.uri # Absent
    THEN IF Len(image.uri[1]) > 5 /\ SubSeq(image.uri[1], 1, 5) = DataScheme
         THEN LoadImageBase64(image.uri[1], FindComma(image.uri[1], 1))
         ELSE ImageResult(LoadImage(image.uri[1], image.file), "file", "", <<>>, "", "")
    ELSE IF image.buffer_view = Absent THEN ImageResult(FALSE, "none", "", <<>>, "", "buffer_view")
    ELSE IF image.buffer_view[1].buffer.data # Absent
         THEN LoadImageEmbedded(image.mime_type,
                  CopyView(image.buffer_view[1],
                           IF image.buffer_view[1].stride # 0 THEN image.buffer_view[1].stride
                           ELSE 1))
    ELSE EmptyImage("none", "")

\* LoadTextureFromImage for the texture slot of material j, if the image resolves
MapTexture(texture, kind, j) ==
    IF texture # Absent /\ LoadImageFromCgltfImage(texture[1]).data THEN <<kind, j>>
    ELSE NullPtr

\* a material property written whether or not the texture exists
TexturedValueMutant(texture, factor, current) == factor

\* a material property that is written inside the branch of its texture only
TexturedValue(texture, factor, current) == IF texture # Absent THEN factor ELSE current

\* the body of the materials loop for source material src, output slot j
ImportMaterial(src, j) ==
    LET d == LoadMaterialDefault(j)
    IN IF ~src.has_pbr_metallic_roughness THEN d
       ELSE [d EXCEPT
               !.albedoTex = MapTexture(src.base_color_texture, "texture.albedo", j),
               !.color = [k \in 1..4 |-> FactorToByte(src.base_color_factor[k])],
               !.roughnessTex =
                   MapTexture(src.metallic_roughness_texture, "texture.roughness", j),
               !.roughness =
                   TexturedValue(src.metallic_roughness_texture, src.roughness_factor, @),
               !.metalness =
                   TexturedValue(src.metallic_roughness_texture, src.metallic_factor, @),
               !.normalTex = MapTexture(src.normal_texture, "texture.normal", j),
               !.occlusionTex = MapTexture(src.occlusion_texture, "texture.occlusion", j),
               !.emissionTex = MapTexture(src.emissive_texture, "texture.emission", j),
               !.emission = IF src.emissive_texture # Absent
                            THEN <<FactorToByte(src.emissive_factor[1]),
                                   FactorToByte(src.emissive_factor[2]),
                                   FactorToByte(src.emissive_factor[3]), 255>>
                            ELSE @]

MaterialTextures(mat) ==
    {mat.albedoTex, mat.roughnessTex, mat.normalTex, mat.occlusionTex, mat.emissionTex}
        \ {NullPtr}

\* ptr - base for a pointer into an array of the container
PtrDiff(ptr) == ptr - 1

\* a material-matching loop that stores the source position itself
MaterialIndexMutant(material, materials_count, current) ==
    IF material = NULL THEN current ELSE PtrDiff(material)

\* the material-matching loop: m + 1 for the source material the primitive points to,
\* otherwise the entry stays 0
MaterialIndex(material, materials_count, current) ==
    LET hits == {m \in 0..(materials_count - 1) : m + 1 = material}
    IN IF hits = {} THEN current ELSE (CHOOSE m \in hits : TRUE) + 1

\* the value of the size bytes at byte position at (from 0), least significant first
RECURSIVE LittleEndian(_, _, _)
LittleEndian(bytes, at, size) ==
    IF size = 0 THEN 0 ELSE bytes[at + 1] + 256 * LittleEndian(bytes, at + 1, size - 1)

\* LOAD_ATTRIBUTE(accesor, numComp, dataType, dstPtr) for a dataType of size bytes:
\* the numComp*count elements written to dstPtr.  The buffer pointer and the step
\* are counted in elements: offsets and stride are divided by the element size
LOAD_ATTRIBUTE(accesor, numComp, size) ==
    [x \in 1..(numComp * accesor.count) |->
        LittleEndian(accesor.buffer_view.buffer.data[1],
                     size * (accesor.buffer_view.offset \div size + accesor.offset \div size
                             + ((x - 1) \div numComp) * (accesor.stride \div size)
                             + ((x - 1) % numComp)),
                     size)]

\* the elements LOAD_ATTRIBUTE leaves in dstPtr on a run that goes on: with the
\* buffer's bytes missing it reads through a null pointer and finds whatever is there
Loaded_ATTRIBUTE(accesor, numComp, size, garbage) ==
    IF accesor.buffer_view.buffer.data = Absent
    THEN [x \in 1..(numComp * accesor.count) |-> garbage]
    ELSE LOAD_ATTRIBUTE(accesor, numComp, size)

\* the POSITION attribute: a vec3 float accessor gives the mesh its vertex count and
\* vertex array, any other format a warning
LoadPosition(ls, position, meshIndex, garbage) ==
    IF position = Absent THEN ls
    ELSE IF position[1].component_type = "r_32f" /\ position[1].type = "vec3"
    THEN [ls EXCEPT !.mesh.vertexCount = position[1].count,
                    !.mesh.vertices = <<"vertices", meshIndex>>,
                    !.vertexData = Loaded_ATTRIBUTE(position[1], 3, 4, garbage),
                    !.nullRead = @ \/ position[1].buffer_view.buffer.data = Absent]
    ELSE [ls EXCEPT !.warnings = @ \cup {"Vertices attribute data format not supported"}]

\* an index conversion that keeps the low byte only
NarrowIndexMutant(index) == index % 256

\* (unsigned short)temp[d]
NarrowIndex(index) == index % 65536

\* the indices of the primitive: u16 copied, u32 narrowed with a warning, any other
\* format a warning; without indices the triangle count comes from the vertices
LoadIndices(ls, indices, meshIndex, garbage) ==
    IF indices = Absent
    THEN [ls EXCEPT !.mesh.triangleCount = ls.mesh.vertexCount \div 3]
    ELSE IF indices[1].component_type = "r_16u"
    THEN [ls EXCEPT !.mesh.triangleCount = indices[1].count \div 3,
                    !.mesh.indices = <<"indices", meshIndex>>,
                    !.indexData = Loaded_ATTRIBUTE(indices[1], 1, 2, garbage),
                    !.nullRead = @ \/ indices[1].buffer_view.buffer.data = Absent]
    ELSE IF indices[1].component_type = "r_32u"
    THEN [ls EXCEPT !.mesh.triangleCount = indices[1].count \div 3,
                    !.mesh.indices = <<"indices", meshIndex>>,
                    !.indexData =
                        [d \in 1..indices[1].count |->
                            NarrowIndex(Loaded_ATTRIBUTE(indices[1], 1, 4, garbage)[d])],
                    !.nullRead = @ \/ indices[1].buffer_view.buffer.data = Absent,
                    !.warnings = @ \cup {"Indices data converted from u32 to u16"}]
    ELSE [ls EXCEPT !.mesh.triangleCount = indices[1].count \div 3,
                    !.warnings = @ \cup {"Indices data format not supported"}]

\* the attribute loop and the index block of one triangle primitive: the mesh with
\* the contents of its arrays, the warnings logged for it and whether a null buffer
\* was read
LoadPrimitive(mesh, prim, meshIndex, garbage) ==
    LoadIndices(LoadPosition([mesh |-> mesh, vertexData |-> <<>>, indexData |-> <<>>,
                              warnings |-> {}, nullRead |-> FALSE],
                             prim.position, meshIndex, garbage),
                prim.indices, meshIndex, garbage)

\* the mesh that the attribute loop and the index block leave in the mesh array
LoadAttributes(mesh, prim, meshIndex) == LoadPrimitive(mesh, prim, meshIndex, 0).mesh

\* the primitives loop of one source mesh; st carries the output arrays and meshIndex
RECURSIVE ImportPrimitives(_, _, _, _)
ImportPrimitives(st, prims, p, materials_count) ==
    IF p > Len(prims) THEN st
    ELSE IF prims[p].type # "triangles"
         THEN ImportPrimitives(st, prims, p + 1, materials_count)
         ELSE ImportPrimitives(
                  [st EXCEPT
                     !.meshes[st.meshIndex + 1] =
                         LoadAttributes(@, prims[p], st.meshIndex),
                     !.meshMaterial[st.meshIndex + 1] =
                         MaterialIndex(prims[p].material, materials_count, @),
                     !.meshIndex = @ + 1],
                  prims, p + 1, materials_count)

\* a meshes loop that records the position of the source mesh as its start
MeshStartsMutant(st) == [st EXCEPT !.mesh_id_starts = Append(@, Len(@))]

\* mesh_id_starts[i] = meshIndex
MeshStarts(st) == [st EXCEPT !.mesh_id_starts = Append(@, st.meshIndex)]

\* mesh_id_ends[i] = meshIndex
MeshEnds(st) == [st EXCEPT !.mesh_id_ends = Append(@, st.meshIndex)]

\* the meshes loop: records mesh_id_starts / mesh_id_ends around each source mesh
RECURSIVE ImportMeshes(_, _, _, _)
ImportMeshes(st, meshes, i, materials_count) ==
    IF i > Len(meshes) THEN st
    ELSE ImportMeshes(MeshEnds(ImportPrimitives(MeshStarts(st), meshes[i], 1,
                                                materials_count)),
                      meshes, i + 1, materials_count)

RECURSIVE PrimitivesCount(_, _)
PrimitivesCount(meshes, i) ==
    IF i = 0 THEN 0 ELSE Len(meshes[i]) + PrimitivesCount(meshes, i - 1)

\* the local matrix of a node: scale x rotation x translation, identity where absent
NodeMatrix(src, i) ==
    LET matTranslation == IF src.has_translation THEN << <<"translation", i>> >>
                          ELSE MatrixIdentity
        matRotation == IF src.has_rotation THEN << <<"rotation", i>> >> ELSE MatrixIdentity
        matScale == IF src.has_scale THEN << <<"scale", i>> >> ELSE MatrixIdentity
    IN MatrixMultiply(MatrixMultiply(matScale, matRotation), matTranslation)

\* the body of the nodes loop for source node src at 0-based position i
ImportNode(src, i, mesh_id_starts, mesh_id_ends, nullOnZero) ==
    [meshStart |-> IF src.mesh = NULL THEN -1 ELSE mesh_id_starts[PtrDiff(src.mesh) + 1],
     meshEnd |-> IF src.mesh = NULL THEN -1 ELSE mesh_id_ends[PtrDiff(src.mesh) + 1],
     childrenCount |-> Len(src.children),
     children |-> [j \in 1..Len(src.children) |-> PtrDiff(src.children[j])],
     childrenPtr |-> Calloc("children", i, Len(src.children), nullOnZero),
     transformMatrix |-> NodeMatrix(src, i)]

\* a scenes loop that stores the pointers without subtracting the base
ImportSceneMutant(roots, i, nullOnZero) ==
    [nodeCount |-> Len(roots),
     nodes |-> [j \in 1..Len(roots) |-> roots[j]],
     nodesPtr |-> Calloc("sceneNodes", i, Len(roots), nullOnZero)]

\* the body of the scenes loop for the source scene at 0-based position i
ImportScene(roots, i, nullOnZero) ==
    [nodeCount |-> Len(roots),
     nodes |-> [j \in 1..Len(roots) |-> PtrDiff(roots[j])],
     nodesPtr |-> Calloc("sceneNodes", i, Len(roots), nullOnZero)]

(***************************************************************************)
(* LoadGLTFModelFile: [model, blocks, warnings], blocks being the memory   *)
(* and texture handles the import leaves allocated.                        *)
(***************************************************************************)
\* the materials loop: slot 0 is the default material, slot j source material j - 1
ImportMaterials(srcs) ==
    [j \in 1..(Len(srcs) + 1) |->
        IF j = 1 THEN LoadMaterialDefault(0) ELSE ImportMaterial(srcs[j - 1], j - 1)]

\* the output arrays as calloc leaves them, each mesh with its vboId array
BlankMeshes(primitivesCount) ==
    [meshes |-> [k \in 1..primitivesCount |-> [ZeroMesh EXCEPT !.vboId = <<"vboId", k - 1>>]],
     meshMaterial |-> [k \in 1..primitivesCount |-> 0],
     meshIndex |-> 0, mesh_id_starts |-> <<>>, mesh_id_ends |-> <<>>]

\* the nodes loop
ImportNodes(nodes, imported, nullOnZero) ==
    [i \in 1..Len(nodes) |->
        ImportNode(nodes[i], i - 1, imported.mesh_id_starts, imported.mesh_id_ends,
                   nullOnZero)]

\* the scenes loop
ImportScenes(scenes, nullOnZero) ==
    [i \in 1..Len(scenes) |-> ImportScene(scenes[i], i - 1, nullOnZero)]

\* model.scene = data->scene - data->scenes, data->scene possibly NULL
ActiveScene(d, garbage) == IF d.scene = NULL THEN garbage ELSE PtrDiff(d.scene)

\* the model a parsed container is turned into
ImportModel(d, primitivesCount, imported, nullOnZero, garbage) ==
    [transform |-> MatrixZero,
     meshCount |-> primitivesCount,
     materialCount |-> Len(d.materials) + 1,
     meshes |-> imported.meshes,
     meshesPtr |-> Calloc("meshes", 0, primitivesCount, nullOnZero),
     materials |-> ImportMaterials(d.materials),
     materialsPtr |-> <<"materials", 0>>,
     meshMaterial |-> imported.meshMaterial,
     meshMaterialPtr |-> Calloc("meshMaterial", 0, primitivesCount, nullOnZero),
     nodeCount |-> Len(d.nodes),
     nodes |-> ImportNodes(d.nodes, imported, nullOnZero),
     nodesPtr |-> Calloc("nodes", 0, Len(d.nodes), nullOnZero),
     sceneCount |-> IF Len(d.scenes) > 0 THEN Len(d.scenes) ELSE 0,
     scenes |-> IF Len(d.scenes) > 0 THEN ImportScenes(d.scenes, nullOnZero) ELSE <<>>,
     scenesPtr |-> IF Len(d.scenes) > 0 THEN <<"scenes", 0>> ELSE NullPtr,
     scene |-> IF Len(d.scenes) > 0 THEN ActiveScene(d, garbage) ELSE 0]

MeshBuffers(mesh) == {mesh.vertices, mesh.indices, mesh.vboId} \ {NullPtr}

\* every allocation and texture handle the model m points to
ModelBlocks(m) ==
    ({m.meshesPtr, m.materialsPtr, m.meshMaterialPtr, m.nodesPtr, m.scenesPtr}
        \cup UNION {MeshBuffers(m.meshes[k]) : k \in 1..Len(m.meshes)}
        \cup {m.materials[j].maps : j \in 1..Len(m.materials)}
        \cup UNION {MaterialTextures(m.materials[j]) : j \in 1..Len(m.materials)}
        \cup {m.nodes[i].childrenPtr : i \in 1..Len(m.nodes)}
        \cup {m.scenes[i].nodesPtr : i \in 1..Len(m.scenes)})
    \ {NullPtr}

Loaded(m, warned) == [model |-> m, blocks |-> ModelBlocks(m), warnings |-> warned]

LoadGLTFModelFile(d, nullOnZero, garbage) ==
    IF d.status = "unreadable" THEN Loaded(ZeroModel, {})
    ELSE IF d.status # "ok" THEN Loaded(ZeroModel, {"glTF data"})
    ELSE Loaded(ImportModel(d, PrimitivesCount(d.meshes, Len(d.meshes)),
                            ImportMeshes(BlankMeshes(PrimitivesCount(d.meshes,
                                                                     Len(d.meshes))),
                                         d.meshes, 1, Len(d.materials)),
                            nullOnZero, garbage),
                {})

\* UploadMesh(&mesh, false)
UploadMesh(mesh) == [mesh EXCEPT !.uploads = @ + 1]

\* GenMeshCube(1, 1, 1): a cube with its own buffers, already uploaded
GenMeshCube ==
    [vertexCount |-> 24, triangleCount |-> 12, vertices |-> <<"vertices", -1>>,
     indices |-> <<"indices", -1>>, vboId |-> <<"vboId", -1>>, uploads |-> 1]

\* meshes[0] of the one-mesh fallback: the cube, or the zeroed entry calloc returned
FallbackMesh(meshGeneration) == IF meshGeneration THEN GenMeshCube ELSE ZeroMesh

(***************************************************************************)
(* LoadGLTFModel: the import, then the two fallbacks and the GPU upload.   *)
(***************************************************************************)
\* if (model.meshCount == 0) ... else the upload loop
MeshFallback(f, meshGeneration) ==
    IF f.model.meshCount = 0
    THEN [model |-> [f.model EXCEPT !.meshCount = 1,
                                    !.meshesPtr = <<"meshes", 1>>,
                                    !.meshes = <<FallbackMesh(meshGeneration)>>],
          blocks |-> f.blocks \cup {<<"meshes", 1>>}
                         \cup MeshBuffers(FallbackMesh(meshGeneration)),
          warnings |-> f.warnings \cup {"mesh data"}]
    ELSE [f EXCEPT !.model.meshes = [i \in 1..f.model.meshCount |-> UploadMesh(@[i])]]

\* a load without the material fallback
MaterialFallbackMutant(f) == f

\* if (model.materialCount == 0) ...
MaterialFallback(f) ==
    IF f.model.materialCount = 0
    THEN [model |-> [f.model EXCEPT
                       !.materialCount = 1,
                       !.materialsPtr = <<"materials", 1>>,
                       !.materials = <<LoadMaterialDefault(0)>>,
                       !.meshMaterialPtr = IF @ = NullPtr THEN <<"meshMaterial", 1>> ELSE @,
                       !.meshMaterial = IF f.model.meshMaterialPtr = NullPtr
                                        THEN [i \in 1..f.model.meshCount |-> 0] ELSE @],
          blocks |-> f.blocks \cup {<<"materials", 1>>, <<"maps", 0>>}
                         \cup (IF f.model.meshMaterialPtr = NullPtr
                               THEN {<<"meshMaterial", 1>>} ELSE {}),
          warnings |-> f.warnings \cup {"material data"}]
    ELSE f

\* model.transform = MatrixIdentity()
SetIdentity(f) == [f EXCEPT !.model.transform = MatrixIdentity]

LoadGLTFModel(d, nullOnZero, meshGeneration, garbage) ==
    MaterialFallback(MeshFallback(SetIdentity(LoadGLTFModelFile(d, nullOnZero, garbage)),
                                  meshGeneration))

(***************************************************************************)
(* UnloadGLTFModel.                                                        *)
(***************************************************************************)
\* UnloadMesh(mesh): releases the mesh's CPU arrays and its buffer-id array
UnloadMesh(h, mesh) == FreeAll(h, <<mesh.vertices, mesh.indices, mesh.vboId>>)

RECURSIVE UnloadMeshes(_, _, _, _)
UnloadMeshes(h, meshes, i, meshCount) ==
    IF i >= meshCount THEN h
    ELSE UnloadMeshes(UnloadMesh(h, meshes[i + 1]), meshes, i + 1, meshCount)

\* an unload that forgets the node array
UnloadNodesMutant(h, m) ==
    Free(FreeAll(h, [i \in 1..m.nodeCount |-> m.nodes[i].childrenPtr]), NullPtr)

\* the children arrays, then the node array
UnloadNodes(h, m) ==
    Free(FreeAll(h, [i \in 1..m.nodeCount |-> m.nodes[i].childrenPtr]), m.nodesPtr)

\* the root arrays, then the scene array
UnloadScenes(h, m) ==
    Free(FreeAll(h, [i \in 1..m.sceneCount |-> m.scenes[i].nodesPtr]), m.scenesPtr)

UnloadGLTFModel(h, m) ==
    LET h1 == UnloadMeshes(h, m.meshes, 0, m.meshCount)
        h2 == FreeAll(h1, [i \in 1..m.materialCount |-> m.materials[i].maps])
        h3 == FreeAll(h2, <<m.meshesPtr, m.materialsPtr, m.meshMaterialPtr>>)
    IN UnloadScenes(UnloadNodes(h3, m), m)

(***************************************************************************)
(* Drawing.  A draw state st carries the materials array (shared with the  *)
(* caller through the pointer), the DrawMesh calls issued so far, the      *)
(* arrays read outside their bounds, and whether the recursion ran away.   *)
(***************************************************************************)
GarbageColor == <<-1, -1, -1, -1>>

\* a mesh loop that leaves the tinted colour in the material
RestoreColorMutant(materials, mi, color) == materials

\* materials[mi].maps[MATERIAL_MAP_DIFFUSE].color = color
RestoreColor(materials, mi, color) == [materials EXCEPT ![mi + 1].color = color]

\* materials[mi].maps[MATERIAL_MAP_DIFFUSE].color = colorTint
SetColor(materials, mi, colorTint) == [materials EXCEPT ![mi + 1].color = colorTint]

\* DrawMesh(model.meshes[i], model.materials[mi], transform) with the tinted
\* materials, then the restore
DrawAndRestore(st, tinted, i, mi, color, transform, wire) ==
    [st EXCEPT
       !.materials = RestoreColor(tinted, mi, color),
       !.log = Append(@, [mesh |-> i, material |-> mi, color |-> tinted[mi + 1].color,
                          transform |-> transform, wire |-> wire])]

\* the same statements run with a material index outside the materials array
DrawWild(st, i, mi, transform, wire) ==
    [st EXCEPT
       !.log = Append(@, [mesh |-> i, material |-> mi, color |-> GarbageColor,
                          transform |-> transform, wire |-> wire]),
       !.oob = @ \cup {"materials"}]

\* model.meshMaterial[i], whatever lies there when i is outside the array
MeshMaterialAt(m, i, garbage) ==
    IF i >= 0 /\ i < Len(m.meshMaterial) THEN m.meshMaterial[i + 1] ELSE garbage

\* the arrays that the mesh loop body reads outside their bounds for mesh i
MeshReadsOutside(m, i) ==
    (IF i >= 0 /\ i < Len(m.meshes) THEN {} ELSE {"meshes"})
        \cup (IF i >= 0 /\ i < Len(m.meshMaterial) THEN {} ELSE {"meshMaterial"})

\* the body of the mesh loops: tint, DrawMesh, restore
DrawMeshTinted(m, st, i, transform, tint, wire, garbage) ==
    LET mi == MeshMaterialAt(m, i, garbage)
        at == [st EXCEPT !.oob = @ \cup MeshReadsOutside(m, i)]
    IN IF mi >= 0 /\ mi < Len(st.materials)
       THEN DrawAndRestore(at,
                           SetColor(st.materials, mi,
                                    ColorTint(st.materials[mi + 1].color, tint)),
                           i, mi, st.materials[mi + 1].color, transform, wire)
       ELSE DrawWild(at, i, mi, transform, wire)

\* for (j = from; j < to; j++) the tinted draw of mesh j
RECURSIVE DrawMeshRange(_, _, _, _, _, _, _, _)
DrawMeshRange(m, st, j, to, transform, tint, wire, garbage) ==
    IF j >= to THEN st
    ELSE DrawMeshRange(m, DrawMeshTinted(m, st, j, transform, tint, wire, garbage),
                       j + 1, to, transform, tint, wire, garbage)

\* DrawGLTFNode; a node number out of range draws nothing.  depth is the number of
\* nested calls: more of them than there are nodes means that a node repeats on the
\* path, and the recursion never ends
RECURSIVE DrawGLTFNode(_, _, _, _, _, _, _, _)
RECURSIVE DrawNodeList(_, _, _, _, _, _, _, _, _)
\* a node draw that also draws the own mesh range of a node with children
DrawGLTFNodeMutant(m, st, node_id, matTransform, tint, wire, garbage, depth) ==
    IF st.hung \/ ~(node_id >= 0 /\ node_id < m.nodeCount) THEN st
    ELSE IF depth > m.nodeCount THEN [st EXCEPT !.hung = TRUE]
    ELSE DrawMeshRange(m,
             DrawNodeList(m, st, m.nodes[node_id + 1].children, 1,
                          MatrixMultiply(m.nodes[node_id + 1].transformMatrix, matTransform),
                          tint, wire, garbage, depth + 1),
             m.nodes[node_id + 1].meshStart, m.nodes[node_id + 1].meshEnd,
             MatrixMultiply(m.nodes[node_id + 1].transformMatrix, matTransform),
             tint, wire, garbage)

DrawGLTFNode(m, st, node_id, matTransform, tint, wire, garbage, depth) ==
    IF st.hung \/ ~(node_id >= 0 /\ node_id < m.nodeCount) THEN st
    ELSE IF depth > m.nodeCount THEN [st EXCEPT !.hung = TRUE]
    ELSE LET node == m.nodes[node_id + 1]
             nodeTransform == MatrixMultiply(node.transformMatrix, matTransform)
         IN IF node.childrenCount > 0
            THEN DrawNodeList(m, st, node.children, 1, nodeTransform, tint, wire,
                              garbage, depth + 1)
            ELSE DrawMeshRange(m, st, node.meshStart, node.meshEnd, nodeTransform,
                               tint, wire, garbage)

\* for (i = 0; i < count; i++) DrawGLTFNode(model, ids[i], ...)
DrawNodeList(m, st, ids, k, matTransform, tint, wire, garbage, depth) ==
    IF k > Len(ids) THEN st
    ELSE DrawNodeList(m,
                      DrawGLTFNode(m, st, ids[k], matTransform, tint, wire, garbage, depth),
                      ids, k + 1, matTransform, tint, wire, garbage, depth)

DrawGLTFScene(m, st, scene_id, matTransform, tint, wire, garbage) ==
    IF scene_id >= 0 /\ scene_id < m.sceneCount
    THEN DrawNodeList(m, st, m.scenes[scene_id + 1].nodes, 1, matTransform, tint, wire,
                      garbage, 1)
    ELSE st

\* the matrix built from the position, rotation and scale arguments
ArgTransform ==
    MatrixMultiply(MatrixMultiply(<< <<"scale", -1>> >>, << <<"rotation", -1>> >>),
                   << <<"translation", -1>> >>)

\* the Matrix argument of the scene and node entry points
ArgMatrix == << <<"matrix", -1>> >>

\* a whole-model draw that always takes the flat mesh list
DrawGLTFModelExMutant(m, st, tint, wire, garbage) ==
    DrawMeshRange(m, st, 0, m.meshCount, MatrixMultiply(m.transform, ArgTransform), tint,
                  wire, garbage)

DrawGLTFModelEx(m, st, tint, wire, garbage) ==
    LET local == [m EXCEPT !.transform = MatrixMultiply(m.transform, ArgTransform)]
    IN IF /\ local.scene >= 0
          /\ local.scene < local.sceneCount
          /\ local.scenes[local.scene + 1].nodeCount > 0
       THEN DrawGLTFScene(local, st, local.scene, local.transform, tint, wire, garbage)
       ELSE DrawMeshRange(local, st, 0, local.meshCount, local.transform, tint, wire,
                          garbage)

DrawGLTFModel(m, st, tint, wire, garbage) == DrawGLTFModelEx(m, st, tint, wire, garbage)

(***************************************************************************)
(* The wireframe entry points: rlEnableWireMode(), the solid draw,         *)
(* rlDisableWireMode().  Each yields the draw state and the raster mode    *)
(* it leaves behind.                                                       *)
(***************************************************************************)
DrawGLTFModelWires(m, st, tint, garbage) ==
    [st |-> DrawGLTFModel(m, st, tint, TRUE, garbage), wireMode |-> FALSE]

DrawGLTFModelWiresEx(m, st, tint, garbage) ==
    [st |-> DrawGLTFModelEx(m, st, tint, TRUE, garbage), wireMode |-> FALSE]

DrawGLTFNodeWires(m, st, node_id, matTransform, tint, garbage) ==
    [st |-> DrawGLTFNode(m, st, node_id, matTransform, tint, TRUE, garbage, 1),
     wireMode |-> FALSE]

\* a wireframe scene draw that disables wire mode only inside the range test
DrawGLTFSceneWiresMutant(m, st, scene_id, matTransform, tint, garbage) ==
    [st |-> DrawGLTFScene(m, st, scene_id, matTransform, tint, TRUE, garbage),
     wireMode |-> ~(scene_id >= 0 /\ scene_id < m.sceneCount)]

DrawGLTFSceneWires(m, st, scene_id, matTransform, tint, garbage) ==
    [st |-> DrawGLTFScene(m, st, scene_id, matTransform, tint, TRUE, garbage),
     wireMode |-> FALSE]

(***************************************************************************)
(* The state machine: one file, loaded once, drawn any number of times,    *)
(* unloaded once.                                                          *)
(***************************************************************************)
NoCall == [fn |-> "none", id |-> 0, tint |-> WHITE]

\* no argument, no result: the functions run on their own are not called
NotCalled == [fn |-> "none"]

Init ==
    /\ arg = NotCalled
    /\ ret = NotCalled
    /\ data \in Files
    /\ pc = "start"
    /\ model = ZeroModel
    /\ heap = [b \in {} |-> 0]
    /\ wireMode = FALSE
    /\ drawLog = <<>>
    /\ lastCall = NoCall
    /\ oob = {}
    /\ warnings = {}

\* model = LoadGLTFModel(fileName)
\* the caller receives the model; the heap holds what the load left allocated
Return(r) ==
    /\ model' = r.model
    /\ heap' = [b \in r.blocks |-> 0]
    /\ warnings' = r.warnings

Load ==
    /\ pc = "start"
    /\ \E nullOnZero \in BOOLEAN, meshGeneration \in BOOLEAN,
          garbage \in GarbageIf(data.scenes # <<>> /\ data.scene = NULL) :
          Return(LoadGLTFModel(data, nullOnZero, meshGeneration, garbage))
    /\ pc' = "loaded"
    /\ lastCall' = NoCall
    /\ UNCHANGED <<data, wireMode, drawLog, oob, arg, ret>>

\* a draw reads garbage only from a meshMaterial array shorter than the mesh array
DrawGarbage == GarbageIf(Len(model.meshMaterial) < model.meshCount)

DrawStart == [materials |-> model.materials, log |-> <<>>, oob |-> {}, hung |-> FALSE]

\* a solid entry point leaves the raster mode as it found it
Solid(st) == [st |-> st, wireMode |-> wireMode]

\* the effect of a draw call that ran to the draw state r.st: it returns, unless the
\* recursion ran away; after a write through a wild material index it may do either
Finish(fn, id, tint, r, wireWithin) ==
    /\ \E dies \in BOOLEAN :
          /\ dies => r.st.hung \/ "materials" \in r.st.oob
          /\ r.st.hung => dies
          /\ pc' = IF dies THEN "crashed" ELSE "drawn"
          /\ wireMode' = IF dies THEN wireWithin ELSE r.wireMode
    /\ model' = [model EXCEPT !.materials = r.st.materials]
    /\ drawLog' = r.st.log
    /\ oob' = r.st.oob
    /\ lastCall' = [fn |-> fn, id |-> id, tint |-> tint]
    /\ UNCHANGED <<data, heap, warnings, arg, ret>>

DrawModel ==
    /\ pc = "loaded"
    /\ \E tint \in Tints, garbage \in DrawGarbage :
          Finish("DrawGLTFModel", 0, tint,
                 Solid(DrawGLTFModel(model, DrawStart, tint, wireMode, garbage)),
                 wireMode)

DrawModelEx ==
    /\ pc = "loaded"
    /\ \E tint \in Tints, garbage \in DrawGarbage :
          Finish("DrawGLTFModelEx", 0, tint,
                 Solid(DrawGLTFModelEx(model, DrawStart, tint, wireMode, garbage)),
                 wireMode)

DrawModelWires ==
    /\ pc = "loaded"
    /\ \E tint \in Tints, garbage \in DrawGarbage :
          Finish("DrawGLTFModelWires", 0, tint,
                 DrawGLTFModelWires(model, DrawStart, tint, garbage), TRUE)

DrawModelWiresEx ==
    /\ pc = "loaded"
    /\ \E tint \in Tints, garbage \in DrawGarbage :
          Finish("DrawGLTFModelWiresEx", 0, tint,
                 DrawGLTFModelWiresEx(model, DrawStart, tint, garbage), TRUE)

\* the node and scene numbers a caller passes: every valid one, and one off each end
NodeIds == -1..model.nodeCount
SceneIds == -1..model.sceneCount

DrawNode ==
    /\ pc = "loaded"
    /\ \E node_id \in NodeIds, tint \in Tints, garbage \in DrawGarbage :
          Finish("DrawGLTFNode", node_id, tint,
                 Solid(DrawGLTFNode(model, DrawStart, node_id, ArgMatrix, tint, wireMode,
                                    garbage, 1)),
                 wireMode)

DrawNodeWires ==
    /\ pc = "loaded"
    /\ \E node_id \in NodeIds, tint \in Tints, garbage \in DrawGarbage :
          Finish("DrawGLTFNodeWires", node_id, tint,
                 DrawGLTFNodeWires(model, DrawStart, node_id, ArgMatrix, tint, garbage),
                 TRUE)

DrawScene ==
    /\ pc = "loaded"
    /\ \E scene_id \in SceneIds, tint \in Tints, garbage \in DrawGarbage :
          Finish("DrawGLTFScene", scene_id, tint,
                 Solid(DrawGLTFScene(model, DrawStart, scene_id, ArgMatrix, tint,
                                     wireMode, garbage)),
                 wireMode)

DrawSceneWires ==
    /\ pc = "loaded"
    /\ \E scene_id \in SceneIds, tint \in Tints, garbage \in DrawGarbage :
          Finish("DrawGLTFSceneWires", scene_id, tint,
                 DrawGLTFSceneWires(model, DrawStart, scene_id, ArgMatrix, tint, garbage),
                 TRUE)

\* the caller has looked at the calls of the last draw and goes on
Continue ==
    /\ pc = "drawn"
    /\ pc' = "loaded"
    /\ drawLog' = <<>>
    /\ oob' = {}
    /\ lastCall' = NoCall
    /\ UNCHANGED <<data, model, heap, wireMode, warnings, arg, ret>>

\* UnloadGLTFModel(model)
Unload ==
    /\ pc = "loaded"
    /\ heap' = UnloadGLTFModel(heap, model)
    /\ pc' = "unloaded"
    /\ drawLog' = <<>>
    /\ oob' = {}
    /\ lastCall' = [NoCall EXCEPT !.fn = "UnloadGLTFModel"]
    /\ UNCHANGED <<data, model, wireMode, warnings, arg, ret>>

Next ==
    \/ Load
    \/ DrawModel
    \/ DrawModelEx
    \/ DrawModelWires
    \/ DrawModelWiresEx
    \/ DrawNode
    \/ DrawNodeWires
    \/ DrawScene
    \/ DrawSceneWires
    \/ Continue
    \/ Unload

Spec == Init /\ [][Next]_vars

(***************************************************************************)
(* The image resolver and the loading of a primitive's data on their own:  *)
(* the argument is drawn from the menus below and the function is applied  *)
(* to it once.                                                             *)
(***************************************************************************)
\* the images.  URIs: none, empty, the bare scheme, a data URI without a comma, a
\* data URI of a PNG, one with a character outside the alphabet, one of a JPEG, one
\* with an empty payload, a file name, and a file name that starts like the scheme.
\* Buffer views: none, one whose buffer is not loaded, a PNG, a PNG with an offset
\* and a stride, a JPEG.  The file under the path: none, or a PNG
Images ==
    {CgltfImage(uri, view, mime, file) :
        uri \in {Absent, Some(<<>>), Some(DataScheme), ImageBad.uri, ImageOk.uri,
                 Some(DataScheme \o <<",", "i", "V", "=", "O", "R", "w", "0", "K">>),
                 Some(DataScheme \o <<",", "/", "9", "j", "/">>),
                 Some(DataScheme \o <<",">>),
                 Some(<<"a", ".", "p", "n", "g">>),
                 Some(<<"d", "a", "t", "a", "_", "1">>)},
        view \in {Absent,
                  Some(BufferView(Absent, 0, 0, 4)),
                  Some(BufferView(Some(PngSignature \o <<13, 10>>), 0, 0, 6)),
                  Some(BufferView(Some(<<9, 137, 9, 80, 9, 78, 9, 71, 9>>), 1, 2, 4)),
                  Some(BufferView(Some(JpegSignature \o <<224>>), 0, 1, 4))},
        mime \in {Absent, Some("image/png"), Some("image\\/png"), Some("image/jpeg"),
                  Some("image\\/jpeg"), Some("image/gif")},
        file \in {Absent, Some(PngSignature \o <<13, 10>>)}}

\* sizeof of the component type of an accessor
ComponentSize(component_type) ==
    IF component_type = "r_8u" THEN 1 ELSE IF component_type = "r_16u" THEN 2 ELSE 4

\* eight 32-bit words, least significant byte first:
\* 0, 70000, 3, 65536, 131071, 2, 65535, 1
IndexBytes ==
    <<0, 0, 0, 0, 112, 17, 1, 0, 3, 0, 0, 0, 0, 0, 1, 0,
      255, 255, 1, 0, 2, 0, 0, 0, 255, 255, 0, 0, 1, 0, 0, 0>>

\* the index accessors: u16, u32 and u8 components over IndexBytes or over a buffer
\* that is not loaded, tightly packed or with every other element skipped, the last
\* element within the bytes of the buffer
IndexAccessors ==
    {a \in {Accessor(ct, "scalar", count, offset, step * ComponentSize(ct),
                     BufferView(bytes, view_offset, 0, Len(IndexBytes))) :
                ct \in {"r_8u", "r_16u", "r_32u"}, count \in {0, 3, 4},
                offset \in {0, 4}, step \in {1, 2}, view_offset \in {0, 4},
                bytes \in {Absent, Some(IndexBytes)}} :
        ComponentSize(a.component_type)
            * (a.buffer_view.offset \div ComponentSize(a.component_type)
               + a.offset \div ComponentSize(a.component_type)
               + (a.count - 1) * (a.stride \div ComponentSize(a.component_type)) + 1)
            <= Len(IndexBytes)}

\* the primitives.  POSITION: none, the triangle, the same over a buffer that is not
\* loaded, and a vec2 accessor
Primitives ==
    {[Primitive("triangles", NULL) EXCEPT !.position = position, !.indices = indices] :
        position \in {Absent, Some(TrianglePosition),
                      Some([TrianglePosition EXCEPT !.buffer_view.buffer.data = Absent]),
                      Some([TrianglePosition EXCEPT !.type = "vec2"])},
        indices \in {Absent} \cup {Some(a) : a \in IndexAccessors}}

UnitInit ==
    /\ data = Unreadable
    /\ pc = "start"
    /\ model = ZeroModel
    /\ heap = [b \in {} |-> 0]
    /\ wireMode = FALSE
    /\ drawLog = <<>>
    /\ lastCall = NoCall
    /\ oob = {}
    /\ warnings = {}
    /\ arg \in {[fn |-> "image", image |-> image] : image \in Images}
                \cup {[fn |-> "primitive", prim |-> prim] : prim \in Primitives}
    /\ ret = NotCalled

\* image = LoadImageFromCgltfImage(arg.image, texPath): after the dereference of a
\* null pointer the call returns or not, as the platform has it
ResolveImage ==
    /\ arg.fn = "image"
    /\ ret.fn = "none"
    /\ \E returned \in BOOLEAN :
          /\ LoadImageFromCgltfImage(arg.image).deref = "" => returned
          /\ ret' = [fn |-> "image", returned |-> returned,
                     image |-> LoadImageFromCgltfImage(arg.image)]
    /\ UNCHANGED <<data, pc, model, heap, wireMode, drawLog, lastCall, oob, warnings, arg>>

\* the attribute loop and the index block for the primitive arg.prim and a zeroed
\* mesh: after a read through a null buffer pointer the import goes on with what it
\* read or not at all, as the platform has it
LoadPrimitiveData ==
    /\ arg.fn = "primitive"
    /\ ret.fn = "none"
    /\ \E returned \in BOOLEAN, garbage \in GarbageInts :
          /\ ~LoadPrimitive(ZeroMesh, arg.prim, 0, garbage).nullRead =>
                 returned /\ garbage = 0
          /\ ret' = [fn |-> "primitive", returned |-> returned,
                     load |-> LoadPrimitive(ZeroMesh, arg.prim, 0, garbage)]
    /\ UNCHANGED <<data, pc, model, heap, wireMode, drawLog, lastCall, oob, warnings, arg>>

UnitSpec == UnitInit /\ [][ResolveImage \/ LoadPrimitiveData]_vars

(***************************************************************************)
(* Properties of the loaded model.                                         *)
(***************************************************************************)
\* C1: once LoadGLTFModel has returned, on every load path every mesh index i in
\* [0, meshCount) has an entry meshMaterial[i], and 0 <= meshMaterial[i] < materialCount
MaterialIndexInRange ==
    pc # "start" =>
        \A i \in 0..(model.meshCount - 1) :
            /\ i < Len(model.meshMaterial)
            /\ model.meshMaterial[i + 1] >= 0
            /\ model.meshMaterial[i + 1] < model.materialCount

\* C2: once LoadGLTFModel has returned, the material-index array has exactly as many
\* entries as the mesh array, also after the placeholder-mesh fallback
MeshMaterialLength ==
    pc # "start" =>
        /\ Len(model.meshMaterial) = model.meshCount
        /\ Len(model.meshes) = model.meshCount

\* C3: in every loaded model each child index of each node lies in [0, nodeCount), each
\* (meshStart, meshEnd) is (-1, -1) or has 0 <= meshStart <= meshEnd <= meshCount, and
\* each scene root index lies in [0, nodeCount)
NodeIndicesInRange ==
    pc # "start" =>
        /\ \A n \in 1..model.nodeCount :
              /\ \A j \in 1..model.nodes[n].childrenCount :
                    /\ model.nodes[n].children[j] >= 0
                    /\ model.nodes[n].children[j] < model.nodeCount
              /\ \/ model.nodes[n].meshStart = -1 /\ model.nodes[n].meshEnd = -1
                 \/ /\ 0 <= model.nodes[n].meshStart
                    /\ model.nodes[n].meshStart <= model.nodes[n].meshEnd
                    /\ model.nodes[n].meshEnd <= model.meshCount
        /\ \A sc \in 1..model.sceneCount :
              \A j \in 1..model.scenes[sc].nodeCount :
                  /\ model.scenes[sc].nodes[j] >= 0
                  /\ model.scenes[sc].nodes[j] < model.nodeCount

\* a loaded model with a node that has children, a node without a mesh, a node with a
\* non-empty mesh range and a scene with a root
NodeIndicesWitness ==
    /\ pc = "loaded"
    /\ \E n \in 1..model.nodeCount : model.nodes[n].childrenCount > 0
    /\ \E n \in 1..model.nodeCount : model.nodes[n].meshStart = -1
    /\ \E n \in 1..model.nodeCount : model.nodes[n].meshStart < model.nodes[n].meshEnd
    /\ \E sc \in 1..model.sceneCount : model.scenes[sc].nodeCount > 0

\* C4: a parsed container without a triangle primitive, be it without primitives or with
\* non-triangle primitives only, loads as a model with meshCount = 1, and the draws and
\* the unload that follow read only in-range entries of its arrays
EmptyMeshFallback ==
    /\ pc # "start"
    /\ data.status = "ok"
    /\ \A i \in 1..Len(data.meshes) :
          \A p \in 1..Len(data.meshes[i]) : data.meshes[i][p].type # "triangles"
    => /\ model.meshCount = 1
       /\ oob = {}
       /\ Len(model.meshes) >= model.meshCount
       /\ Len(model.materials) >= model.materialCount

DrawLeavesModel ==
    [][pc = "loaded" /\ pc' = "drawn" => model' = model]_vars

\* a draw has returned after two meshes with the same material were drawn in a colour
\* other than the stored one
DrawLeavesModelWitness ==
    /\ pc = "drawn"
    /\ \E a \in 1..Len(drawLog), b \in 1..Len(drawLog) :
          /\ a < b
          /\ drawLog[a].material = drawLog[b].material
          /\ drawLog[a].material >= 0
          /\ drawLog[a].material < Len(model.materials)
          /\ drawLog[a].color # model.materials[drawLog[a].material + 1].color

\* C7: each mesh is drawn in the colour whose every channel is floor(c * t / 255), c the
\* stored channel of its material and t the channel of the tint of the call, also when
\* the material was used by a mesh drawn before
TintIsFloor ==
    pc = "drawn" =>
        \A n \in 1..Len(drawLog) :
            drawLog[n].material >= 0 /\ drawLog[n].material < Len(model.materials) =>
                \A k \in 1..4 :
                    drawLog[n].color[k] =
                        (model.materials[drawLog[n].material + 1].color[k]
                             * lastCall.tint[k]) \div 255

\* C8: a wireframe entry point draws every mesh in wire mode and, when it returns, has
\* left the raster state in solid mode, whatever node or scene number it was given
WiresLeaveSolid ==
    lastCall.fn \in {"DrawGLTFModelWires", "DrawGLTFModelWiresEx",
                     "DrawGLTFNodeWires", "DrawGLTFSceneWires"} =>
        /\ \A n \in 1..Len(drawLog) : drawLog[n].wire
        /\ pc = "drawn" => ~wireMode

\* a wireframe draw of a scene has drawn a mesh and returned
WiresWitness ==
    /\ pc = "drawn"
    /\ lastCall.fn = "DrawGLTFSceneWires"
    /\ drawLog # <<>>

(***************************************************************************)
(* Properties of the unload.                                               *)
(***************************************************************************)
\* C9: UnloadGLTFModel has released every child-index array, every scene's node-index
\* array, the node array and the scene array exactly once, and no block twice
NodesScenesFreedOnce ==
    pc = "unloaded" =>
        /\ \A b \in DOMAIN heap :
              b[1] \in {"children", "sceneNodes", "nodes", "scenes"} => heap[b] = 1
        /\ \A b \in DOMAIN heap : heap[b] <= 1

\* a model with a childless node, a node with children and a scene has been unloaded
NodesScenesWitness ==
    /\ pc = "unloaded"
    /\ \E n \in 1..model.nodeCount : model.nodes[n].childrenCount = 0
    /\ \E n \in 1..model.nodeCount : model.nodes[n].childrenPtr \in DOMAIN heap
    /\ \E sc \in 1..model.sceneCount : model.scenes[sc].nodesPtr \in DOMAIN heap

\* C10: after one load and one unload every block and every texture handle the load
\* created has been released exactly once
EverythingFreedOnce ==
    pc = "unloaded" => \A b \in DOMAIN heap : heap[b] = 1

(***************************************************************************)
(* Properties of the import of meshes, materials and the scene graph.      *)
(***************************************************************************)
\* the number of triangle primitives that precede primitive p of source mesh i in
\* the order of the meshes loop (1-based positions)
TrianglesBefore(meshes, i, p) ==
    Cardinality({q \in (1..Len(meshes)) \X (1..PrimitivesCount(meshes, Len(meshes))) :
                    /\ q[2] <= Len(meshes[q[1]])
                    /\ meshes[q[1]][q[2]].type = "triangles"
                    /\ (q[1] < i \/ (q[1] = i /\ q[2] < p))})

\* the ranges mesh_id_starts / mesh_id_ends that the meshes loop records for d
MeshRanges(d) ==
    ImportMeshes(BlankMeshes(PrimitivesCount(d.meshes, Len(d.meshes))), d.meshes, 1,
                 Len(d.materials))

\* C15: the meshes of an imported model are one-to-one with the triangle primitives:
\* meshCount is the number of triangle primitives, and the ranges of the source meshes
\* are contiguous: start_0 = 0, start_(i+1) = end_i, and end_i - start_i is the number
\* of triangle primitives of source mesh i
MeshesAreTrianglePrimitives ==
    pc = "loaded" /\ data.status = "ok"
        /\ PrimitivesCount(data.meshes, Len(data.meshes)) > 0 =>
        /\ model.meshCount = TrianglesBefore(data.meshes, Len(data.meshes) + 1, 1)
        /\ \A i \in 1..Len(data.meshes) :
              /\ MeshRanges(data).mesh_id_starts[i] = TrianglesBefore(data.meshes, i, 1)
              /\ MeshRanges(data).mesh_id_ends[i] = TrianglesBefore(data.meshes, i + 1, 1)

\* C16: the material entry of the mesh made from a triangle primitive is m + 1 when the
\* primitive references source material m and 0 when it references none; slot 0 of the
\* materials is the default material and materialCount is the source count plus one
MaterialSlots ==
    pc = "loaded" /\ data.status = "ok" =>
        /\ model.materialCount = Len(data.materials) + 1
        /\ Len(model.materials) = model.materialCount
        /\ model.materials[1] = LoadMaterialDefault(0)
        /\ \A i \in 1..Len(data.meshes) :
              \A p \in 1..Len(data.meshes[i]) :
                  data.meshes[i][p].type = "triangles" =>
                      model.meshMaterial[TrianglesBefore(data.meshes, i, p) + 1] =
                          IF data.meshes[i][p].material = NULL THEN 0
                          ELSE PtrDiff(data.meshes[i][p].material) + 1

\* a loaded model with a triangle primitive that follows a skipped primitive and
\* references a source material other than the first, and one that references none
MaterialSlotsWitness ==
    /\ pc = "loaded"
    /\ data.status = "ok"
    /\ \E i \in 1..Len(data.meshes) :
          \E p \in 1..Len(data.meshes[i]) :
              /\ data.meshes[i][p].type = "triangles"
              /\ data.meshes[i][p].material > 1
              /\ TrianglesBefore(data.meshes, i, p) < PrimitivesCount(data.meshes, i - 1) + p - 1
    /\ \E i \in 1..Len(data.meshes) :
          \E p \in 1..Len(data.meshes[i]) :
              /\ data.meshes[i][p].type = "triangles"
              /\ data.meshes[i][p].material = NULL

\* C17: the import of the scene graph preserves positions: node i comes from source
\* node i, nodeCount is the source node count, children[j] is the position of the j-th
\* child, every scene lists the positions of its roots in source order, a node with
\* source mesh k gets the range (start_k, end_k) of that mesh and a node without a
\* mesh gets (-1, -1)
GraphPositionsKept ==
    pc = "loaded" /\ data.status = "ok" =>
        /\ model.nodeCount = Len(data.nodes)
        /\ Len(model.nodes) = model.nodeCount
        /\ \A i \in 1..Len(data.nodes) :
              /\ model.nodes[i].transformMatrix = NodeMatrix(data.nodes[i], i - 1)
              /\ model.nodes[i].childrenCount = Len(data.nodes[i].children)
              /\ \A j \in 1..Len(data.nodes[i].children) :
                    model.nodes[i].children[j] + 1 = data.nodes[i].children[j]
              /\ data.nodes[i].mesh = NULL =>
                    model.nodes[i].meshStart = -1 /\ model.nodes[i].meshEnd = -1
              /\ data.nodes[i].mesh # NULL =>
                    /\ model.nodes[i].meshStart =
                           TrianglesBefore(data.meshes, data.nodes[i].mesh, 1)
                    /\ model.nodes[i].meshEnd =
                           TrianglesBefore(data.meshes, data.nodes[i].mesh + 1, 1)
        /\ model.sceneCount = Len(data.scenes)
        /\ \A sc \in 1..Len(data.scenes) :
              /\ model.scenes[sc].nodeCount = Len(data.scenes[sc])
              /\ \A j \in 1..Len(data.scenes[sc]) :
                    model.scenes[sc].nodes[j] + 1 = data.scenes[sc][j]

\* a loaded graph with a node that has the second source mesh, a node without a
\* mesh, a child entry and a scene whose root is the second node
GraphPositionsWitness ==
    /\ pc = "loaded"
    /\ data.status = "ok"
    /\ \E i \in 1..Len(data.nodes) : data.nodes[i].mesh = 2 /\ model.nodes[i].meshStart = 1
    /\ \E i \in 1..Len(data.nodes) : data.nodes[i].mesh = NULL
    /\ \E i \in 1..Len(data.nodes) : model.nodes[i].childrenCount > 0
    /\ \E sc \in 1..Len(data.scenes) :
          model.scenes[sc].nodeCount > 0 /\ model.scenes[sc].nodes[1] = 1

(***************************************************************************)
(* Properties of the draw traversal.                                       *)
(***************************************************************************)
\* the mesh and the transform of every DrawMesh call of a log, in call order
Calls(log) == [k \in 1..Len(log) |-> <<log[k].mesh, log[k].transform>>]

\* C12: a whole-model draw draws the default scene exactly when 0 <= model.scene <
\* sceneCount and that scene has at least one root; otherwise it draws every mesh
\* exactly once in ascending order, all with the same composed model transform and
\* no node transform
WholeModelDraw ==
    pc = "drawn" /\ lastCall.fn \in {"DrawGLTFModel", "DrawGLTFModelEx",
                                     "DrawGLTFModelWires", "DrawGLTFModelWiresEx"} =>
        IF /\ 0 <= model.scene
           /\ model.scene < model.sceneCount
           /\ model.scenes[model.scene + 1].nodeCount > 0
        THEN Calls(drawLog) =
                 Calls(DrawGLTFScene(model, DrawStart, model.scene,
                                     MatrixMultiply(model.transform, ArgTransform),
                                     lastCall.tint, FALSE, 0).log)
        ELSE Calls(drawLog) =
                 [k \in 1..model.meshCount |->
                     <<k - 1, MatrixMultiply(model.transform, ArgTransform)>>]

\* a whole-model draw has drawn a default scene whose first call is not mesh 0
WholeModelDrawWitness ==
    /\ pc = "drawn"
    /\ lastCall.fn = "DrawGLTFModelEx"
    /\ 0 <= model.scene
    /\ model.scene < model.sceneCount
    /\ Len(drawLog) >= 2
    /\ drawLog[1].mesh > 0
    /\ drawLog[1].transform # MatrixMultiply(model.transform, ArgTransform)

\* the calls of drawing the nodes ids[k..] one after the other, each on its own
RECURSIVE ChildCalls(_, _, _)
ChildCalls(ids, k, matTransform) ==
    IF k > Len(ids) THEN <<>>
    ELSE Calls(DrawGLTFNode(model, DrawStart, ids[k], matTransform, lastCall.tint, FALSE,
                            0, 1).log)
             \o ChildCalls(ids, k + 1, matTransform)

\* C13: a node draw of a node with at least one child issues the calls of its children
\* in child-list order and none with the node's own transform, so its own mesh range
\* is not drawn at that step; a node without children has every mesh of
\* [meshStart, meshEnd) drawn exactly once in ascending order with its transform; a
\* node with the range (-1, -1) and no children draws nothing
NodeDraw ==
    /\ pc = "drawn"
    /\ lastCall.fn \in {"DrawGLTFNode", "DrawGLTFNodeWires"}
    /\ 0 <= lastCall.id
    /\ lastCall.id < model.nodeCount
    => LET node == model.nodes[lastCall.id + 1]
           nodeTransform == MatrixMultiply(node.transformMatrix, ArgMatrix)
       IN /\ node.childrenCount > 0 =>
                /\ Calls(drawLog) = ChildCalls(node.children, 1, nodeTransform)
                /\ \A k \in 1..Len(drawLog) : drawLog[k].transform # nodeTransform
          /\ node.childrenCount = 0 =>
                Calls(drawLog) =
                    [k \in 1..(node.meshEnd - node.meshStart) |->
                        <<node.meshStart + k - 1, nodeTransform>>]
          /\ node.childrenCount = 0 /\ node.meshStart = -1 /\ node.meshEnd = -1 =>
                drawLog = <<>>

\* a node that has a mesh range of its own and a child has been drawn, and the
\* draw has issued a call
NodeDrawWitness ==
    /\ pc = "drawn"
    /\ lastCall.fn = "DrawGLTFNode"
    /\ 0 <= lastCall.id
    /\ lastCall.id < model.nodeCount
    /\ model.nodes[lastCall.id + 1].childrenCount > 0
    /\ model.nodes[lastCall.id + 1].meshStart < model.nodes[lastCall.id + 1].meshEnd
    /\ drawLog # <<>>

\* C20: for every imported source material each channel of the albedo colour is the
\* base-colour factor times 255, truncated, whatever textures the material has; the
\* roughness and metalness values are the source factors when the source material
\* has a metallic-roughness texture, and the default material's values otherwise
MaterialFactors ==
    pc = "loaded" /\ data.status = "ok" =>
        \A j \in 1..Len(data.materials) :
            /\ \A k \in 1..4 :
                  /\ model.materials[j + 1].color[k] * 8
                         <= data.materials[j].base_color_factor[k] * 255
                  /\ data.materials[j].base_color_factor[k] * 255
                         < (model.materials[j + 1].color[k] + 1) * 8
            /\ data.materials[j].metallic_roughness_texture # Absent =>
                  /\ model.materials[j + 1].roughness = data.materials[j].roughness_factor
                  /\ model.materials[j + 1].metalness = data.materials[j].metallic_factor
            /\ data.materials[j].metallic_roughness_texture = Absent =>
                  /\ model.materials[j + 1].roughness = LoadMaterialDefault(j).roughness
                  /\ model.materials[j + 1].metalness = LoadMaterialDefault(j).metalness

\* a loaded model with a material whose metallic-roughness texture did not resolve
\* and whose factors were written all the same, and a material without that texture
\* whose factors differ from the defaults it kept and whose colour is not white
MaterialFactorsWitness ==
    /\ pc = "loaded"
    /\ data.status = "ok"
    /\ \E j \in 1..Len(data.materials) :
          /\ data.materials[j].metallic_roughness_texture # Absent
          /\ model.materials[j + 1].roughnessTex = NullPtr
          /\ model.materials[j + 1].roughness # LoadMaterialDefault(j).roughness
          /\ model.materials[j + 1].color \notin {WHITE, BLANK}
    /\ \E j \in 1..Len(data.materials) :
          /\ data.materials[j].metallic_roughness_texture = Absent
          /\ data.materials[j].roughness_factor # LoadMaterialDefault(j).roughness
          /\ model.materials[j + 1].color # WHITE

(***************************************************************************)
(* Properties of the image resolver.                                       *)
(***************************************************************************)
\* whether uri is a data URI: more than five characters, the first five "data:"
IsDataUri(uri) == uri # Absent /\ Len(uri[1]) > 5 /\ SubSeq(uri[1], 1, 5) = DataScheme

\* the characters of a data URI after its first comma
Payload(uri) == SubSeq(uri[1], FindComma(uri[1], 1) + 1, Len(uri[1]))

\* C14: the image resolver returns an empty image and dereferences no absent field
\* for every failing input: an image with no URI and no buffer view, an embedded image
\* with no MIME string or an unrecognized one, a data URI without a comma, and a
\* base64 payload that fails to decode
ResolverFailsSafely ==
    /\ ret.fn = "image"
    /\ \/ arg.image.uri = Absent /\ arg.image.buffer_view = Absent
       \/ /\ arg.image.uri = Absent
          /\ arg.image.buffer_view # Absent
          /\ arg.image.mime_type \in {Absent, Some("image/gif")}
       \/ IsDataUri(arg.image.uri) /\ FindComma(arg.image.uri[1], 1) > Len(arg.image.uri[1])
       \/ /\ IsDataUri(arg.image.uri)
          /\ FindComma(arg.image.uri[1], 1) <= Len(arg.image.uri[1])
          /\ \E i \in 1..(4 * (Len(Payload(arg.image.uri)) \div 4)) :
                ~IsBase64(Payload(arg.image.uri)[i])
    => /\ ret.returned
       /\ ~ret.image.data
       /\ ret.image.deref = ""

\* C18: the image resolver picks its source in this order: a URI that begins with
\* "data:" is base64-decoded from the character after the first comma, with output
\* size 3 * floor(payloadLength / 4), and decoded as PNG; otherwise a non-empty URI is
\* loaded as a file path; otherwise (no URI or an empty URI) the embedded buffer view
\* is used, size bytes copied from the view's offset, stride apart (1 when it is 0)
ResolverOrder ==
    ret.fn = "image" /\ ret.returned =>
        IF /\ arg.image.uri # Absent
           /\ Len(arg.image.uri[1]) >= 5
           /\ SubSeq(arg.image.uri[1], 1, 5) = DataScheme
        THEN /\ ret.image.route = "base64"
             /\ ret.image.bytes # <<>> =>
                   /\ ret.image.fileType = ".png"
                   /\ Len(ret.image.bytes) = 3 * (Len(Payload(arg.image.uri)) \div 4)
        ELSE IF arg.image.uri # Absent /\ arg.image.uri[1] # <<>>
        THEN ret.image.route = "file"
        ELSE arg.image.buffer_view # Absent
                 /\ arg.image.buffer_view[1].buffer.data # Absent =>
                 /\ ret.image.route = "view"
                 /\ Len(ret.image.bytes) = arg.image.buffer_view[1].size
                 /\ \A i \in 1..arg.image.buffer_view[1].size :
                       ret.image.bytes[i] =
                           arg.image.buffer_view[1].buffer.data[1][
                               arg.image.buffer_view[1].offset + 1 + (i - 1) *
                                   (IF arg.image.buffer_view[1].stride = 0 THEN 1
                                    ELSE arg.image.buffer_view[1].stride)]

(***************************************************************************)
(* Properties of the loading of a primitive's data.                        *)
(***************************************************************************)
\* the 32-bit word at word position w (from 0) of IndexBytes
IndexWord(w) ==
    IndexBytes[4 * w + 1] + 256 * IndexBytes[4 * w + 2] + 65536 * IndexBytes[4 * w + 3]
        + 16777216 * IndexBytes[4 * w + 4]

\* C11: with an index accessor of 32-bit unsigned components each output index is the
\* source index modulo 65536, the output has as many indices as the source,
\* triangleCount is indexCount / 3 and a warning is logged; 16-bit indices are copied
\* unchanged without a warning
IndexNarrowing ==
    /\ ret.fn = "primitive"
    /\ arg.prim.indices # Absent
    /\ arg.prim.indices[1].buffer_view.buffer.data # Absent
    => LET a == arg.prim.indices[1]
       IN /\ a.component_type = "r_32u" =>
                /\ Len(ret.load.indexData) = a.count
                /\ \A d \in 1..a.count :
                      /\ ret.load.indexData[d] < 65536
                      /\ \E q \in 0..(IndexWord((a.buffer_view.offset + a.offset) \div 4
                                               + (d - 1) * (a.stride \div 4)) \div 65536) :
                            ret.load.indexData[d] + 65536 * q =
                                IndexWord((a.buffer_view.offset + a.offset) \div 4
                                          + (d - 1) * (a.stride \div 4))
                /\ ret.load.mesh.triangleCount = a.count \div 3
                /\ "Indices data converted from u32 to u16" \in ret.load.warnings
          /\ a.component_type = "r_16u" =>
                /\ Len(ret.load.indexData) = a.count
                /\ \A d \in 1..a.count :
                      ret.load.indexData[d] =
                          IndexBytes[a.buffer_view.offset + a.offset + (d - 1) * a.stride + 1]
                              + 256 * IndexBytes[a.buffer_view.offset + a.offset
                                                 + (d - 1) * a.stride + 2]
                /\ ret.load.mesh.triangleCount = a.count \div 3
                /\ ret.load.warnings \cap {"Indices data converted from u32 to u16",
                                           "Indices data format not supported"} = {}

\* the 32-bit indices 0, 70000, 3 have been loaded as 0, 4464, 3
IndexNarrowingWitness ==
    /\ ret.fn = "primitive"
    /\ arg.prim.indices # Absent
    /\ arg.prim.indices[1].component_type = "r_32u"
    /\ arg.prim.indices[1].buffer_view.buffer.data # Absent
    /\ ret.load.indexData = <<0, 4464, 3>>
    /\ ret.load.mesh.triangleCount = 1

\* C19: when the container's buffers could not be resolved the import goes on without
\* reading the unavailable buffer: the vertex array and the index array that depend on
\* a buffer without bytes are left unset, and the load still returns
UnresolvedBufferSkipped ==
    ret.fn = "primitive" =>
        /\ ret.returned
        /\ ~ret.load.nullRead
        /\ arg.prim.position # Absent
               /\ arg.prim.position[1].buffer_view.buffer.data = Absent =>
               /\ ret.load.mesh.vertices = NullPtr
               /\ ret.load.vertexData = <<>>
        /\ arg.prim.indices # Absent
               /\ arg.prim.indices[1].buffer_view.buffer.data = Absent =>
               /\ ret.load.mesh.indices = NullPtr
               /\ ret.load.indexData = <<>>

(***************************************************************************)
(* Properties of the node graph and of the transforms of a traversal.      *)
(***************************************************************************)
\* the nodes (0-based) reached from the nodes of frontier by child entries, seen
\* being those found so far
RECURSIVE Reach(_, _)
Reach(frontier, seen) ==
    IF frontier \subseteq seen THEN seen
    ELSE Reach(UNION {{model.nodes[n + 1].children[j] :
                          j \in 1..model.nodes[n + 1].childrenCount} :
                      n \in frontier \ seen},
               seen \cup frontier)

\* C21: in every model the importer produces from a parsed container no node is
\* reached from its own children, and so every DrawGLTFNode and DrawGLTFScene call
\* comes to an end: a draw of a node or a scene that does not return has gone
\* through a material index outside the array, not through the node graph
NodeGraphAcyclic ==
    /\ pc # "start" =>
          \A n \in 0..(model.nodeCount - 1) :
              n \notin Reach({model.nodes[n + 1].children[j] :
                                 j \in 1..model.nodes[n + 1].childrenCount}, {})
    /\ pc = "crashed" /\ lastCall.fn \in {"DrawGLTFNode", "DrawGLTFNodeWires",
                                          "DrawGLTFScene", "DrawGLTFSceneWires"} =>
          "materials" \in oob

\* the calls due for the nodes ids[k..] entered with transform T: a node hands
\* its local matrix times T to its children, a node without children has its meshes
\* drawn with it
RECURSIVE PathCalls(_, _, _)
PathCalls(ids, k, T) ==
    IF k > Len(ids) THEN <<>>
    ELSE (IF ids[k] < 0 \/ ids[k] >= model.nodeCount THEN <<>>
          ELSE IF model.nodes[ids[k] + 1].childrenCount > 0
          THEN PathCalls(model.nodes[ids[k] + 1].children, 1,
                         model.nodes[ids[k] + 1].transformMatrix \o T)
          ELSE [j \in 1..(model.nodes[ids[k] + 1].meshEnd
                              - model.nodes[ids[k] + 1].meshStart) |->
                   <<model.nodes[ids[k] + 1].meshStart + j - 1,
                     model.nodes[ids[k] + 1].transformMatrix \o T>>])
         \o PathCalls(ids, k + 1, T)

MeshesUploadedOnce ==
    pc = "loaded" =>
        \A k \in 1..model.meshCount : model.meshes[k].uploads = 1

====
